---- MODULE Spec2Model ----
(***************************************************************************)
(* Locality load balancing of pilot/pkg/networking/core/v1alpha3/          *)
(* loadbalancer/loadbalancer.go: GetLocalityLbSetting,                     *)
(* ApplyLocalityLBSetting, applyLocalityWeight and applyLocalityFailover.  *)
(*                                                                         *)
(* Pointers are modelled by records with a nil flag whose other fields     *)
(* hold the zero values the protobuf getters return for a nil receiver.    *)
(* A uint32 is the pair <<high 16 bits, low 16 bits>>, because the         *)
(* integers of TLC are narrower than uint32.                               *)
(***************************************************************************)
EXTENDS Integers, Sequences, FiniteSets, TLC

VARIABLES
  pc,             \* "start" before the call, "done" after it
  op,             \* the function called: "resolve", "weight", "failover", "apply"
  mesh,           \* GetLocalityLbSetting: mesh
  destrule,       \* GetLocalityLbSetting: destrule
  resolved,       \* GetLocalityLbSetting: the value returned
  locality,       \* the caller's (proxy's) locality
  input,          \* the load assignment as passed in
  loadAssignment, \* the load assignment, mutated in place
  localityLB,     \* the policy passed to ApplyLocalityLBSetting
  enableFailover, \* ApplyLocalityLBSetting: enableFailover
  iterOrder,      \* the keys of the applied rule's `To` map, in the order ranged over
  tier            \* applyLocalityFailover: Priority of each group after step 1

vars == <<pc, op, mesh, destrule, resolved, locality, input, loadAssignment,
          localityLB, enableFailover, iterOrder, tier>>

(***************************************************************************)
(* Bounds of the model.                                                    *)
(***************************************************************************)
MaxGroups == 2
MaxRules == 2

(***************************************************************************)
(* uint32 arithmetic.                                                      *)
(***************************************************************************)
Half == 2 ^ 16

U32(n) == <<n \div Half, n % Half>>
Zero32 == <<0, 0>>
One32 == <<0, 1>>
MaxUint32 == <<Half - 1, Half - 1>>

\* a >= b, for pairs whose low part is below Half
Geq(a, b) == a[1] > b[1] \/ (a[1] = b[1] /\ a[2] >= b[2])

\* a + b without wrapping (the high part may exceed 16 bits)
AddExact(a, b) ==
  LET lo == a[2] + b[2]
  IN  <<a[1] + b[1] + (lo \div Half), lo % Half>>

\* uint32 addition: totalWeight += destLocMap[i]
Add32(a, b) ==
  LET s == AddExact(a, b)
  IN  <<s[1] % Half, s[2]>>

\* the 32-bit product of two 16-bit numbers
Mul16(p, q) ==
  LET p1 == (p \div 256) * q
      p0 == (p % 256) * q
      lo == (p1 % 256) * 256 + p0
  IN  <<(p1 \div 256) + (lo \div Half), lo % Half>>

\* uint32 multiplication, wrapping modulo 2^32: originalWeight*weight
Mul32(a, b) ==
  LET ll == Mul16(a[2], b[2])
  IN  <<(ll[1] + Mul16(a[1], b[2])[2] + Mul16(a[2], b[1])[2]) % Half, ll[2]>>

Sub(a, b) ==
  IF a[2] >= b[2] THEN <<a[1] - b[1], a[2] - b[2]>>
  ELSE <<a[1] - b[1] - 1, a[2] + Half - b[2]>>

\* a * d and a * 16 + d for a digit d < 16 (the high part may exceed 16 bits)
MulDigit(a, d) ==
  LET lo == a[2] * d
  IN  <<a[1] * d + (lo \div Half), lo % Half>>

Shl4(a, d) ==
  LET lo == a[2] * 16 + d
  IN  <<a[1] * 16 + (lo \div Half), lo % Half>>

\* the k-th hexadecimal digit of a uint32, k in 0..7
Nibble(a, k) ==
  IF k >= 4 THEN (a[1] \div (16 ^ (k - 4))) % 16 ELSE (a[2] \div (16 ^ k)) % 16

\* <<quotient, remainder>> of the uint32 p by t # 0: long division, one
\* hexadecimal digit a step, from digit k down
RECURSIVE DivMod(_, _, _, _)
DivMod(p, t, k, qr) ==
  IF k < 0 THEN qr
  ELSE LET r2 == Shl4(qr[2], Nibble(p, k))
           d  == CHOOSE x \in 0..15 :
                   Geq(r2, MulDigit(t, x)) /\ ~Geq(r2, MulDigit(t, x + 1))
       IN  DivMod(p, t, k - 1, <<Shl4(qr[1], d), Sub(r2, MulDigit(t, d))>>)

\* the quotient truncated instead of rounded up
CeilDivTruncated(p, t) == DivMod(p, t, 7, <<Zero32, Zero32>>)[1]

\* math.Ceil(float64(p) / float64(t)) for uint32 p and t # 0: both operands
\* are exact in float64, and a quotient that is no integer lies at least
\* 1/t > 2^-32 from one, more than the rounding error of the division, so
\* the result is the integer ceiling of p/t.  Operands below 2^31 are
\* divided as TLC integers.
CeilDiv(p, t) ==
  IF p[1] < Half \div 2 /\ t[1] < Half \div 2
    THEN LET n == p[1] * Half + p[2]
             m == t[1] * Half + t[2]
         IN  U32((n \div m) + (IF n % m = 0 THEN 0 ELSE 1))
    ELSE LET qr == DivMod(p, t, 7, <<Zero32, Zero32>>)
         IN  IF qr[2] = Zero32 THEN qr[1] ELSE Add32(qr[1], One32)

(***************************************************************************)
(* Data: localities, endpoint groups, policies.                            *)
(***************************************************************************)
Loc(r, z, s) == [nil |-> FALSE, Region |-> r, Zone |-> z, SubZone |-> s]
NilLocality == [nil |-> TRUE, Region |-> "", Zone |-> "", SubZone |-> ""]

\* a `from` or `to` string "region/zone/subzone", split into its parts
Pattern(r, z, s) == [Region |-> r, Zone |-> z, SubZone |-> s]

NilWeight == [nil |-> TRUE, Value |-> Zero32]
Weight(v) == [nil |-> FALSE, Value |-> v]

NilBool == [nil |-> TRUE, Value |-> FALSE]
BoolValue(b) == [nil |-> FALSE, Value |-> b]

NilDistribute == [nil |-> TRUE, rules |-> <<>>]
EmptyTo == [k \in {} |-> Zero32]
NilRule == [nil |-> TRUE, From |-> Pattern("", "", ""), To |-> EmptyTo]
NilSetting == [nil |-> TRUE, Enabled |-> NilBool, Distribute |-> NilDistribute,
               Failover |-> <<>>]
NilAssignment == [nil |-> TRUE, Endpoints |-> <<>>]

\* util.LocalityMatch: a pattern part that is empty matches anything
LocalityMatch(loc, pattern) ==
  /\ pattern.Region = "" \/ loc.Region = pattern.Region
  /\ pattern.Zone = "" \/ loc.Zone = pattern.Zone
  /\ pattern.SubZone = "" \/ loc.SubZone = pattern.SubZone

\* util.LbPriority: the closeness tier of an endpoint locality to the proxy's
LbPriority(proxyLocality, endpointsLocality) ==
  IF proxyLocality.Region = endpointsLocality.Region
    THEN IF proxyLocality.Zone = endpointsLocality.Zone
           THEN IF proxyLocality.SubZone = endpointsLocality.SubZone THEN 0 ELSE 1
           ELSE 2
    ELSE 3

(***************************************************************************)
(* GetLocalityLbSetting                                                    *)
(***************************************************************************)
\* GetLocalityLbSetting with the destination rule's Enabled flag ignored
GetLocalityLbSettingNoOverride(m, d) ==
  IF m.nil THEN NilSetting
  ELSE IF ~d.nil THEN d
  ELSE m

GetLocalityLbSetting(m, d) ==
  LET enabled == IF ~d.nil /\ ~d.Enabled.nil THEN d.Enabled.Value ELSE ~m.nil
  IN  IF ~enabled THEN NilSetting
      ELSE IF ~d.nil THEN d
      ELSE m

(***************************************************************************)
(* applyLocalityWeight                                                     *)
(***************************************************************************)
\* the keys of a `To` map in the order the runtime ranges over them
RangeKeys(to, ord) == SelectSeq(ord, LAMBDA k : k \in DOMAIN to)

\* destLocMap[i]
OriginalWeight(ep) ==
  IF ~ep.LoadBalancingWeight.nil THEN ep.LoadBalancingWeight.Value ELSE One32

\* the groups still in misMatched that the `to` pattern matches
Claimed(endpoints, misMatched, pattern) ==
  {i \in misMatched : LocalityMatch(endpoints[i].Locality, pattern)}

RECURSIVE TotalWeight(_, _)
TotalWeight(endpoints, claimed) ==
  IF claimed = {} THEN Zero32
  ELSE LET i == CHOOSE j \in claimed : TRUE
       IN  Add32(TotalWeight(endpoints, claimed \ {i}), OriginalWeight(endpoints[i]))

\* the assignment without its `destWeight > 0` guard
AssignWeightUnguarded(ep, weight, totalWeight, conv) ==
  IF totalWeight = Zero32
    THEN [ep EXCEPT !.LoadBalancingWeight = Weight(conv)]
    ELSE [ep EXCEPT !.LoadBalancingWeight =
            Weight(CeilDiv(Mul32(OriginalWeight(ep), weight), totalWeight))]

\* the second inner loop's body: destWeight and the conditional assignment.
\* A totalWeight of 0 makes the quotient NaN (0/0, not > 0) or +Inf (> 0),
\* and uint32(+Inf) is whatever the build's conversion yields (conv).
AssignWeight(ep, weight, totalWeight, conv) ==
  LET product == Mul32(OriginalWeight(ep), weight)
  IN  IF product = Zero32 THEN ep
      ELSE IF totalWeight = Zero32
        THEN [ep EXCEPT !.LoadBalancingWeight = Weight(conv)]
      ELSE [ep EXCEPT !.LoadBalancingWeight = Weight(CeilDiv(product, totalWeight))]

\* the iteration without its delete(misMatched, i)
ApplyToNoDelete(st, pattern, weight, conv) ==
  LET claimed == Claimed(st.endpoints, st.misMatched, pattern)
      totalWeight == TotalWeight(st.endpoints, claimed)
  IN  [endpoints |-> [i \in DOMAIN st.endpoints |->
                        IF i \in claimed
                          THEN AssignWeight(st.endpoints[i], weight, totalWeight, conv)
                          ELSE st.endpoints[i]],
       misMatched |-> st.misMatched]

\* one iteration of the loop over localityWeightSetting.To
ApplyTo(st, pattern, weight, conv) ==
  LET claimed == Claimed(st.endpoints, st.misMatched, pattern)
      totalWeight == TotalWeight(st.endpoints, claimed)
  IN  [endpoints |-> [i \in DOMAIN st.endpoints |->
                        IF i \in claimed
                          THEN AssignWeight(st.endpoints[i], weight, totalWeight, conv)
                          ELSE st.endpoints[i]],
       misMatched |-> st.misMatched \ claimed]

RECURSIVE RangeTo(_, _, _, _)
RangeTo(st, to, keys, conv) ==
  IF keys = <<>> THEN st
  ELSE RangeTo(ApplyTo(st, Head(keys), to[Head(keys)], conv), to, Tail(keys), conv)

\* the body run for the matching rule, up to its break
ApplyRule(endpoints, rule, ord, conv) ==
  LET st == RangeTo([endpoints |-> endpoints, misMatched |-> DOMAIN endpoints],
                    rule.To, RangeKeys(rule.To, ord), conv)
  IN  [i \in DOMAIN endpoints |->
         IF i \in st.misMatched
           THEN [st.endpoints[i] EXCEPT !.LbEndpoints = <<>>]
           ELSE st.endpoints[i]]

\* the loop over distribute without its break
RECURSIVE RangeDistributeNoBreak(_, _, _, _, _)
RangeDistributeNoBreak(loc, endpoints, rules, ord, conv) ==
  IF rules = <<>> THEN endpoints
  ELSE IF ~Head(rules).nil /\ LocalityMatch(loc, Head(rules).From)
    THEN RangeDistributeNoBreak(loc, ApplyRule(endpoints, Head(rules), ord, conv),
                                Tail(rules), ord, conv)
  ELSE RangeDistributeNoBreak(loc, endpoints, Tail(rules), ord, conv)

\* the loop over distribute
RECURSIVE RangeDistribute(_, _, _, _, _)
RangeDistribute(loc, endpoints, rules, ord, conv) ==
  IF rules = <<>> THEN endpoints
  ELSE IF ~Head(rules).nil /\ LocalityMatch(loc, Head(rules).From)
    THEN ApplyRule(endpoints, Head(rules), ord, conv)
  ELSE RangeDistribute(loc, endpoints, Tail(rules), ord, conv)

applyLocalityWeight(loc, endpoints, distribute, ord, conv) ==
  IF distribute.nil THEN endpoints
  ELSE RangeDistribute(loc, endpoints, distribute.rules, ord, conv)

(***************************************************************************)
(* applyLocalityFailover                                                   *)
(***************************************************************************)
\* the loop over failover without its break: the last rule whose From matches decides
RECURSIVE RangeFailoverNoBreak(_, _, _)
RangeFailoverNoBreak(loc, epLocality, failover) ==
  IF failover = <<>> THEN 3
  ELSE LET rest == RangeFailoverNoBreak(loc, epLocality, Tail(failover))
       IN  IF Head(failover).From = loc.Region
                /\ ~\E k \in DOMAIN Tail(failover) : Tail(failover)[k].From = loc.Region
             THEN IF epLocality.nil \/ epLocality.Region # Head(failover).To THEN 4 ELSE 3
             ELSE rest

\* the loop over failover for a group of raw priority 3, up to its break
RECURSIVE RangeFailover(_, _, _)
RangeFailover(loc, epLocality, failover) ==
  IF failover = <<>> THEN 3
  ELSE IF Head(failover).From = loc.Region
    THEN IF epLocality.nil \/ epLocality.Region # Head(failover).To THEN 4 ELSE 3
  ELSE RangeFailover(loc, epLocality, Tail(failover))

\* step 1: the priority of a group compared with the proxy locality
GroupPriority(loc, epLocality, failover) ==
  LET priority == LbPriority(loc, epLocality)
  IN  IF priority = 3 THEN RangeFailover(loc, epLocality, failover) ELSE priority

\* loadAssignment.Endpoints[i].Priority after step 1
Step1(loc, endpoints, failover) ==
  [i \in DOMAIN endpoints |-> GroupPriority(loc, endpoints[i].Locality, failover)]

\* priorityMap: priority -> the indexes of the groups that have it
PriorityMap(prio) ==
  [p \in {prio[i] : i \in DOMAIN prio} |-> {i \in DOMAIN prio : prio[i] = p}]

\* the keys of priorityMap in decreasing order
RECURSIVE SortIntsDecreasing(_)
SortIntsDecreasing(S) ==
  IF S = {} THEN <<>>
  ELSE LET m == CHOOSE x \in S : \A y \in S : x >= y
       IN  <<m>> \o SortIntsDecreasing(S \ {m})

\* sort.Ints over the keys of priorityMap
RECURSIVE SortInts(_)
SortInts(S) ==
  IF S = {} THEN <<>>
  ELSE LET m == CHOOSE x \in S : \A y \in S : x <= y
       IN  <<m>> \o SortInts(S \ {m})

\* step 2.2: priorities[k] (k counted from 1 here, from 0 in the code)
RECURSIVE Adjust(_, _, _, _)
Adjust(prio, priorityMap, priorities, k) ==
  IF k > Len(priorities) THEN prio
  ELSE Adjust([i \in DOMAIN prio |->
                 IF k - 1 # priorities[k] /\ i \in priorityMap[priorities[k]]
                   THEN k - 1 ELSE prio[i]],
              priorityMap, priorities, k + 1)

\* step 2: the final Priority of each group
Compact(prio) ==
  LET priorityMap == PriorityMap(prio)
  IN  Adjust(prio, priorityMap, SortInts(DOMAIN priorityMap), 1)

applyLocalityFailover(loc, endpoints, failover) ==
  LET final == Compact(Step1(loc, endpoints, failover))
  IN  [i \in DOMAIN endpoints |-> [endpoints[i] EXCEPT !.Priority = final[i]]]

(***************************************************************************)
(* ApplyLocalityLBSetting                                                  *)
(***************************************************************************)
\* ApplyLocalityLBSetting with `else if` written as a second `if`
ApplyLocalityLBSettingBoth(loc, la, lb, failoverOn, ord, conv) ==
  IF loc.nil \/ la.nil THEN la
  ELSE LET weighted ==
             IF ~lb.Distribute.nil
               THEN applyLocalityWeight(loc, la.Endpoints, lb.Distribute, ord, conv)
               ELSE la.Endpoints
       IN  [la EXCEPT !.Endpoints =
              IF failoverOn THEN applyLocalityFailover(loc, weighted, lb.Failover)
              ELSE weighted]

ApplyLocalityLBSetting(loc, la, lb, failoverOn, ord, conv) ==
  IF loc.nil \/ la.nil THEN la
  ELSE IF ~lb.Distribute.nil
    THEN [la EXCEPT !.Endpoints =
            applyLocalityWeight(loc, la.Endpoints, lb.Distribute, ord, conv)]
  ELSE IF failoverOn
    THEN [la EXCEPT !.Endpoints = applyLocalityFailover(loc, la.Endpoints, lb.Failover)]
  ELSE la

(***************************************************************************)
(* Inputs.                                                                 *)
(***************************************************************************)
SeqsUpTo(S, n) == UNION {[1..k -> S] : k \in 0..n}

Perms(S) == {f \in [1..Cardinality(S) -> S] : \A i, j \in DOMAIN f : f[i] = f[j] => i = j}

LocA == Loc("r1", "z1", "s1")
LocB == Loc("r1", "z2", "s1")
LocC == Loc("r2", "z1", "s1")
LocD == Loc("r1", "z1", "s2")
LocE == Loc("r3", "z1", "s1")

PatR1 == Pattern("r1", "", "")
PatR1Z1 == Pattern("r1", "z1", "")
PatR1Z2 == Pattern("r1", "z2", "")

ToPatterns == {PatR1, PatR1Z1, PatR1Z2}

\* what uint32(+Inf) yields: 0 where the conversion goes through a 64-bit
\* truncation, the largest uint32 where it saturates
InfConversions == {Zero32, MaxUint32}

Group(l, w, p) ==
  [Locality |-> l, LoadBalancingWeight |-> w, LbEndpoints |-> <<"ep">>, Priority |-> p]

Assignment(eps) == [nil |-> FALSE, Endpoints |-> eps]

Rule(f, t) == [nil |-> FALSE, From |-> f, To |-> t]

Distribute(rs) == [nil |-> FALSE, rules |-> rs]

FailoverRule(f, t) == [From |-> f, To |-> t]

Setting(e, d, f) == [nil |-> FALSE, Enabled |-> e, Distribute |-> d, Failover |-> f]

Big == U32(65536)
TwoTo31 == <<Half \div 2, 0>>

\* groups and rules for the structure of applyLocalityWeight
WeightGroups ==
  {Group(l, w, 0) : l \in {LocA, LocB}, w \in {NilWeight, Weight(Zero32), Weight(U32(2))}}

WeightRules ==
  { NilRule,
    Rule(PatR1, (PatR1 :> U32(3)) @@ (PatR1Z1 :> U32(5))),
    Rule(PatR1Z1, (PatR1Z1 :> U32(3)) @@ (PatR1Z2 :> U32(7))),
    Rule(PatR1Z2, (PatR1Z2 :> U32(100))) }

\* groups and rule weights for its arithmetic
NumGroups ==
  {Group(l, w, 0) :
     l \in {LocA, LocC},
     w \in {NilWeight, Weight(Zero32), Weight(U32(2)), Weight(U32(65537)), Weight(TwoTo31)}}

NumRuleWeights == {Zero32, U32(3), U32(100), Big}

\* groups and rules for applyLocalityFailover
FailoverGroups == {Group(l, NilWeight, 0) : l \in {LocA, LocB, LocC, LocD, LocE, NilLocality}}

FailoverRules == {FailoverRule(f, t) : f \in {"r1", "r2"}, t \in {"r2", "r3"}}

\* policies, groups and assignments for the two exported functions
Settings ==
  {Setting(e, d, f) :
     e \in {NilBool, BoolValue(TRUE), BoolValue(FALSE)},
     d \in {NilDistribute, Distribute(<<>>),
            Distribute(<<Rule(PatR1, (PatR1Z1 :> U32(3)))>>)},
     f \in {<<>>, <<FailoverRule("r1", "r2")>>}}

ApplyGroups ==
  {Group(l, w[1], w[2]) :
     l \in {LocA, LocB, LocC},
     w \in {<<NilWeight, 0>>, <<Weight(U32(2)), 7>>}}

InitCommon ==
  /\ pc = "start"
  /\ iterOrder = <<>>
  /\ tier = <<>>
  /\ resolved = NilSetting

(***************************************************************************)
(* applyLocalityWeight called on its own.                                  *)
(***************************************************************************)
InitWeight ==
  /\ op = "weight"
  /\ InitCommon
  /\ mesh = NilSetting
  /\ destrule = NilSetting
  /\ enableFailover = FALSE
  /\ locality \in {LocA, LocB}
  /\ input \in {Assignment(eps) : eps \in SeqsUpTo(WeightGroups, MaxGroups)}
  /\ localityLB \in {Setting(NilBool, Distribute(rs), <<>>) :
                        rs \in SeqsUpTo(WeightRules, MaxRules)}
  /\ loadAssignment = input

InitNum ==
  /\ op = "weight"
  /\ InitCommon
  /\ mesh = NilSetting
  /\ destrule = NilSetting
  /\ enableFailover = FALSE
  /\ locality = LocA
  /\ input \in {Assignment(eps) : eps \in SeqsUpTo(NumGroups, MaxGroups)}
  /\ localityLB \in {Setting(NilBool, Distribute(<<Rule(PatR1, (PatR1 :> w))>>), <<>>) :
                        w \in NumRuleWeights}
  /\ loadAssignment = input

\* the keys the call ranges over: those of the first matching rule
RECURSIVE RangedKeys(_, _, _)
RangedKeys(loc, rules, ord) ==
  IF rules = <<>> THEN <<>>
  ELSE IF ~Head(rules).nil /\ LocalityMatch(loc, Head(rules).From)
    THEN RangeKeys(Head(rules).To, ord)
  ELSE RangedKeys(loc, Tail(rules), ord)

CallApplyLocalityWeight ==
  /\ pc = "start"
  /\ op = "weight"
  /\ \E ord \in Perms(ToPatterns), conv \in InfConversions :
       /\ loadAssignment' =
            [loadAssignment EXCEPT !.Endpoints =
               applyLocalityWeight(locality, loadAssignment.Endpoints,
                                   localityLB.Distribute, ord, conv)]
       /\ iterOrder' = RangedKeys(locality, localityLB.Distribute.rules, ord)
  /\ pc' = "done"
  /\ UNCHANGED <<op, mesh, destrule, resolved, locality, input, localityLB,
                 enableFailover, tier>>

NextWeight == CallApplyLocalityWeight

SpecWeight == InitWeight /\ [][NextWeight]_vars

SpecNum == InitNum /\ [][NextWeight]_vars

(***************************************************************************)
(* applyLocalityFailover called on its own.                                *)
(***************************************************************************)
InitFailover ==
  /\ op = "failover"
  /\ InitCommon
  /\ mesh = NilSetting
  /\ destrule = NilSetting
  /\ enableFailover = TRUE
  /\ locality \in {LocA, LocC}
  /\ input \in {Assignment(eps) : eps \in SeqsUpTo(FailoverGroups, MaxGroups)}
  /\ localityLB \in {Setting(NilBool, NilDistribute, fs) :
                        fs \in SeqsUpTo(FailoverRules, MaxRules)}
  /\ loadAssignment = input

CallApplyLocalityFailover ==
  /\ pc = "start"
  /\ op = "failover"
  /\ loadAssignment' =
       [loadAssignment EXCEPT !.Endpoints =
          applyLocalityFailover(locality, loadAssignment.Endpoints, localityLB.Failover)]
  /\ tier' = Step1(locality, loadAssignment.Endpoints, localityLB.Failover)
  /\ pc' = "done"
  /\ UNCHANGED <<op, mesh, destrule, resolved, locality, input, localityLB,
                 enableFailover, iterOrder>>

NextFailover == CallApplyLocalityFailover

SpecFailover == InitFailover /\ [][NextFailover]_vars

(***************************************************************************)
(* ApplyLocalityLBSetting                                                  *)
(***************************************************************************)
InitApply ==
  /\ op = "apply"
  /\ InitCommon
  /\ mesh = NilSetting
  /\ destrule = NilSetting
  /\ enableFailover \in BOOLEAN
  /\ locality \in {NilLocality, LocA, LocC}
  /\ input \in {NilAssignment} \cup
                {Assignment(eps) : eps \in SeqsUpTo(ApplyGroups, MaxGroups)}
  /\ localityLB \in {NilSetting} \cup Settings
  /\ loadAssignment = input

CallApplyLocalityLBSetting ==
  /\ pc = "start"
  /\ op = "apply"
  /\ \E ord \in Perms(ToPatterns), conv \in InfConversions :
       loadAssignment' = ApplyLocalityLBSetting(locality, loadAssignment, localityLB,
                                                enableFailover, ord, conv)
  /\ pc' = "done"
  /\ UNCHANGED <<op, mesh, destrule, resolved, locality, input, localityLB,
                 enableFailover, iterOrder, tier>>

NextApply == CallApplyLocalityLBSetting

SpecApply == InitApply /\ [][NextApply]_vars

(***************************************************************************)
(* GetLocalityLbSetting                                                    *)
(***************************************************************************)
InitResolve ==
  /\ op = "resolve"
  /\ InitCommon
  /\ mesh \in {NilSetting} \cup Settings
  /\ destrule \in {NilSetting} \cup Settings
  /\ enableFailover = FALSE
  /\ locality = NilLocality
  /\ input = NilAssignment
  /\ localityLB = NilSetting
  /\ loadAssignment = input

CallGetLocalityLbSetting ==
  /\ pc = "start"
  /\ op = "resolve"
  /\ resolved' = GetLocalityLbSetting(mesh, destrule)
  /\ pc' = "done"
  /\ UNCHANGED <<op, mesh, destrule, locality, input, loadAssignment, localityLB,
                 enableFailover, iterOrder, tier>>

NextResolve == CallGetLocalityLbSetting

SpecResolve == InitResolve /\ [][NextResolve]_vars

(***************************************************************************)
(* What the claims speak of.                                               *)
(***************************************************************************)
Done == pc = "done"

In == input.Endpoints
Out == loadAssignment.Endpoints

\* the distribution rules whose `from` matches the caller, and the first of them
Matching ==
  {k \in DOMAIN localityLB.Distribute.rules :
     /\ ~localityLB.Distribute.rules[k].nil
     /\ LocalityMatch(locality, localityLB.Distribute.rules[k].From)}

FirstRule ==
  localityLB.Distribute.rules[CHOOSE k \in Matching : \A j \in Matching : k <= j]

\* the groups claimed by the n-th `to` entry ranged over: those its pattern
\* matches and no pattern ranged over before it does
ClaimedAt(n) ==
  {i \in DOMAIN In :
     /\ LocalityMatch(In[i].Locality, iterOrder[n])
     /\ \A m \in 1..(n - 1) : ~LocalityMatch(In[i].Locality, iterOrder[m])}

RuleWeightAt(n) == FirstRule.To[iterOrder[n]]

\* the sum, without wrapping, of the weights (1 if unset) of the groups S of eps
RECURSIVE ExactSum(_, _)
ExactSum(eps, S) ==
  IF S = {} THEN Zero32
  ELSE LET i == CHOOSE j \in S : TRUE
       IN  AddExact(ExactSum(eps, S \ {i}), OriginalWeight(eps[i]))

\* a uint32 below 2^31 as an integer
ToInt(a) == a[1] * Half + a[2]

\* C1: after applyLocalityFailover every group's Priority is the rank of its
\* tier (its Priority after step 1) among the distinct tiers present, so the
\* priorities are exactly 0..k for k+1 distinct tiers, equal tiers share a
\* priority and a smaller tier gets a strictly smaller priority.
C1_PriorityIsRankOfTier ==
  Done =>
    /\ DOMAIN tier = DOMAIN Out
    /\ \A i \in DOMAIN Out :
         Out[i].Priority =
           Cardinality({t \in {tier[j] : j \in DOMAIN tier} : t < tier[i]})
    /\ {Out[i].Priority : i \in DOMAIN Out} =
         0..(Cardinality({tier[j] : j \in DOMAIN tier}) - 1)
    /\ \A i, j \in DOMAIN Out :
         /\ tier[i] = tier[j] => Out[i].Priority = Out[j].Priority
         /\ tier[i] < tier[j] => Out[i].Priority < Out[j].Priority

C1_Witness ==
  /\ Done
  /\ \E i, j \in DOMAIN Out :
       /\ tier[i] = 2 /\ Out[i].Priority = 0
       /\ tier[j] = 4 /\ Out[j].Priority = 1

\* C2: applyLocalityWeight applies only the first rule whose `from` matches
\* the caller: the result is that of the call with that rule alone (later
\* rules, matching or not, and nil rules have no effect), and the load
\* assignment is unchanged when no rule matches.
C2_OnlyFirstMatchingRule ==
  Done =>
    IF Matching = {} THEN Out = In
    ELSE \E conv \in InfConversions :
           Out = applyLocalityWeight(locality, In, Distribute(<<FirstRule>>),
                                     iterOrder, conv)

C2_Witness ==
  /\ Done
  /\ Cardinality(Matching) >= 2
  /\ Out # In
  /\ \E k \in Matching, conv \in InfConversions :
       Out # applyLocalityWeight(locality, In,
                                 Distribute(<<localityLB.Distribute.rules[k]>>),
                                 iterOrder, conv)

\* C3: when some rule's `from` matches the caller, a group's endpoint list
\* is emptied iff its Locality matches none of the `to` patterns of the first
\* matching rule; a group matching one keeps its list, and every group stays
\* in the collection.
C3_ClearedIffUnmatched ==
  (Done /\ Matching # {}) =>
    /\ Len(Out) = Len(In)
    /\ \A i \in DOMAIN In :
         /\ Out[i].Locality = In[i].Locality
         /\ IF \E pat \in DOMAIN FirstRule.To : LocalityMatch(In[i].Locality, pat)
              THEN Out[i].LbEndpoints = In[i].LbEndpoints
              ELSE Out[i].LbEndpoints = <<>>

C3_Witness ==
  /\ Done
  /\ Matching # {}
  /\ \E i, j \in DOMAIN Out :
       /\ Out[i].LbEndpoints = <<>>
       /\ In[i].LbEndpoints # <<>>
       /\ Out[j].LbEndpoints # <<>>

\* C4 (as claimed): for every `to` entry of the applied rule whose claimed
\* groups have a total original weight above 0, the resulting weights of
\* those groups sum to at least the entry's rule weight.
C4_SumReachesRuleWeight ==
  (Done /\ Matching # {}) =>
    \A n \in DOMAIN iterOrder :
      ExactSum(In, ClaimedAt(n)) # Zero32 =>
        Geq(ExactSum(Out, ClaimedAt(n)), RuleWeightAt(n))

\* C5 (as claimed): every group claimed by a `to` entry of the applied rule
\* whose claimed groups have a total original weight above 0 ends with a
\* weight that is set and at least 1.
C5_ClaimedWeightPositive ==
  (Done /\ Matching # {}) =>
    \A n \in DOMAIN iterOrder : \A i \in ClaimedAt(n) :
      ExactSum(In, ClaimedAt(n)) # Zero32 =>
        /\ ~Out[i].LoadBalancingWeight.nil
        /\ Out[i].LoadBalancingWeight.Value # Zero32

\* C5 (amended): a group claimed by a `to` entry ends with a weight that is
\* set and at least 1 whenever the entry's rule weight is at least 1, the
\* group's own original weight (1 if unset) is at least 1 and the
\* totalWeight computed for the claimed groups is above 0; a claimed group
\* with an explicit weight of 0 keeps it, and under a rule weight of 0 every
\* claimed group's weight is left as it was.
C5_PositiveWhenOwnAndRuleWeightPositive ==
  (Done /\ Matching # {}) =>
    \A n \in DOMAIN iterOrder : \A i \in ClaimedAt(n) :
      /\ ( /\ RuleWeightAt(n) # Zero32
           /\ OriginalWeight(In[i]) # Zero32
           /\ TotalWeight(In, ClaimedAt(n)) # Zero32 )
         => /\ ~Out[i].LoadBalancingWeight.nil
            /\ Out[i].LoadBalancingWeight.Value # Zero32
      /\ In[i].LoadBalancingWeight = Weight(Zero32)
         => Out[i].LoadBalancingWeight = Weight(Zero32)
      /\ RuleWeightAt(n) = Zero32
         => Out[i].LoadBalancingWeight = In[i].LoadBalancingWeight

C5_Witness ==
  /\ Done
  /\ Matching # {}
  /\ \E n \in DOMAIN iterOrder : \E i, j \in ClaimedAt(n) :
       /\ RuleWeightAt(n) # Zero32
       /\ In[i].LoadBalancingWeight = Weight(Zero32)
       /\ Out[i].LoadBalancingWeight = Weight(Zero32)
       /\ OriginalWeight(In[j]) # Zero32
       /\ Out[j].LoadBalancingWeight = Weight(One32)
       /\ In[j].LoadBalancingWeight # Out[j].LoadBalancingWeight

\* C9 (as claimed): the order in which the `to` entries of the applied rule
\* are ranged over does not affect the result: every order gives the load
\* assignment this call produced.
C9_OrderIndependent ==
  Done =>
    \A ord \in Perms(ToPatterns), conv \in InfConversions :
      applyLocalityWeight(locality, In, localityLB.Distribute, ord, conv) = Out

\* C10: when every group claimed by a `to` entry carries an explicit weight
\* of 0, the call completes, each such group keeps its weight and its
\* endpoint list, and the groups claimed by the other entries get the
\* ceiling of originalWeight * ruleWeight / totalWeight.
C10_ZeroTotalSkipsAssignment ==
  (Done /\ Matching # {}) =>
    \A n \in DOMAIN iterOrder :
      (/\ ClaimedAt(n) # {}
       /\ \A i \in ClaimedAt(n) : In[i].LoadBalancingWeight = Weight(Zero32))
      => /\ \A i \in ClaimedAt(n) :
              /\ Out[i].LoadBalancingWeight = In[i].LoadBalancingWeight
              /\ Out[i].LbEndpoints = In[i].LbEndpoints
         /\ \A m \in DOMAIN iterOrder \ {n} : \A j \in ClaimedAt(m) :
              LET product == ToInt(OriginalWeight(In[j])) * ToInt(RuleWeightAt(m))
                  total   == ToInt(ExactSum(In, ClaimedAt(m)))
                  new     == ToInt(Out[j].LoadBalancingWeight.Value)
              IN  /\ Out[j].LbEndpoints = In[j].LbEndpoints
                  /\ product > 0 =>
                       /\ ~Out[j].LoadBalancingWeight.nil
                       /\ (new - 1) * total < product
                       /\ product <= new * total
                  /\ product = 0 =>
                       Out[j].LoadBalancingWeight = In[j].LoadBalancingWeight

C10_Witness ==
  /\ Done
  /\ Matching # {}
  /\ \E n, m \in DOMAIN iterOrder :
       /\ n # m
       /\ ClaimedAt(n) # {}
       /\ \A i \in ClaimedAt(n) : In[i].LoadBalancingWeight = Weight(Zero32)
       /\ \E j \in ClaimedAt(m) :
            /\ Out[j].LoadBalancingWeight # In[j].LoadBalancingWeight
            /\ ~Out[j].LoadBalancingWeight.nil

\* the raw closeness tier of group i and the first failover rule whose
\* `from` is the caller's region
RawTier(i) == LbPriority(locality, In[i].Locality)

FromMatching == {k \in DOMAIN localityLB.Failover : localityLB.Failover[k].From = locality.Region}

FirstFailover == localityLB.Failover[CHOOSE k \in FromMatching : \A j \in FromMatching : k <= j]

\* C6: GetLocalityLbSetting returns nil iff locality load balancing is
\* disabled, where the destination rule's Enabled flag, when the rule is
\* present and sets it, decides, and the presence of the mesh policy decides
\* otherwise; when enabled it returns the destination rule whole if there is
\* one, else the mesh policy.
C6_ResolvedPolicy ==
  Done =>
    /\ (destrule.nil /\ ~mesh.nil) => resolved = mesh
    /\ (destrule.nil /\ mesh.nil) => resolved.nil
    /\ (~destrule.nil /\ destrule.Enabled = NilBool /\ ~mesh.nil) => resolved = destrule
    /\ (~destrule.nil /\ destrule.Enabled = NilBool /\ mesh.nil) => resolved.nil
    /\ (~destrule.nil /\ destrule.Enabled = BoolValue(TRUE)) => resolved = destrule
    /\ (~destrule.nil /\ destrule.Enabled = BoolValue(FALSE)) => resolved.nil

C6_Witness ==
  /\ Done
  /\ ~mesh.nil
  /\ ~destrule.nil
  /\ mesh # destrule
  /\ destrule.Enabled = BoolValue(TRUE)
  /\ resolved = destrule

\* C7: after step 1 of applyLocalityFailover a group's tier is 4 iff its raw
\* tier is 3 and the first failover rule whose `from` is the caller's region
\* exists and has a `to` other than the group's region (or the group has no
\* Locality); otherwise it is the raw tier.  Later rules with the same
\* `from` are not consulted.
C7_EscalationByFirstRule ==
  Done =>
    \A i \in DOMAIN In :
      LET escalated ==
            /\ RawTier(i) = 3
            /\ FromMatching # {}
            /\ (In[i].Locality.nil \/ In[i].Locality.Region # FirstFailover.To)
      IN  /\ tier[i] = 4 <=> escalated
          /\ ~escalated => tier[i] = RawTier(i)

C7_Witness ==
  /\ Done
  /\ \E i \in DOMAIN In :
       /\ tier[i] = 4
       /\ ~In[i].Locality.nil
       /\ \E k \in FromMatching : localityLB.Failover[k].To = In[i].Locality.Region

\* C8: ApplyLocalityLBSetting keeps the number, order and Locality of the
\* groups; with distribution rules in the policy no Priority changes (even
\* if enableFailover is set); when failover is applied no weight and no
\* endpoint list changes; a call never changes both; and with the caller
\* locality or the load assignment absent nothing changes.
C8_Frame ==
  Done =>
    /\ (locality.nil \/ input.nil) => loadAssignment = input
    /\ loadAssignment.nil = input.nil
    /\ Len(Out) = Len(In)
    /\ \A i \in DOMAIN In : Out[i].Locality = In[i].Locality
    /\ ~localityLB.Distribute.nil =>
         \A i \in DOMAIN In : Out[i].Priority = In[i].Priority
    /\ (localityLB.Distribute.nil /\ enableFailover) =>
         \A i \in DOMAIN In :
           /\ Out[i].LoadBalancingWeight = In[i].LoadBalancingWeight
           /\ Out[i].LbEndpoints = In[i].LbEndpoints
    /\ (\E i \in DOMAIN In : Out[i].Priority # In[i].Priority) =>
         \A i \in DOMAIN In :
           /\ Out[i].LoadBalancingWeight = In[i].LoadBalancingWeight
           /\ Out[i].LbEndpoints = In[i].LbEndpoints

C8_Witness ==
  /\ Done
  /\ ~localityLB.Distribute.nil
  /\ enableFailover
  /\ \E i, j \in DOMAIN In :
       /\ Out[i].LoadBalancingWeight # In[i].LoadBalancingWeight
       /\ Out[j].LbEndpoints # In[j].LbEndpoints
       /\ In[i].Priority = 7

====
